---- MODULE Spec2Model ----
(***************************************************************************)
(* Model of concord's room engine (src/src/common/Room.ts) and of the two  *)
(* commands that drive it (create, join).                                  *)
(*                                                                         *)
(* Room.ts holds two layouts of the same engine.  Both are modelled and    *)
(* the variable `variant` selects the one a behaviour runs:                *)
(*   "managers" : lines 16-264, Room + InstanceManager + MemberManager     *)
(*   "inline"   : lines 541-781, Room keeps instances and memberCount      *)
(* JavaScript runs one callback at a time: every action below is the code  *)
(* between two awaits (or a promise rejection handler).                    *)
(***************************************************************************)
EXTENDS Integers, Sequences, FiniteSets, TLC

\* ---------------------------------------------------------------- bounds
MaxRooms == 3        \* Room objects constructed
MaxCalls == 3        \* command invocations (create / join)
MaxUsers == 2        \* distinct guild members
MaxMsgs == 2         \* inbound message events
MaxFailures == 2     \* rejected webhook sends
NumCharacters == 2   \* size of makeId's alphabet (36 in the program)
IdLength == 1        \* length of a room id (4 in the program)
MaxRejects == 1      \* createThread requests the transport rejects
MaxFiltered == 1     \* threads in which a message is filtered out

\* ------------------------------------------------------------ value sets
Users == 1..MaxUsers
Calls == 1..MaxCalls
RoomRefs == 1..MaxRooms
\* A started thread is named after the call that started it.
Threads == Calls
\* Channel 0 is not a top-level text channel, channel 1 is.
Channels == {0, 1}
\* message.content: empty, a short text, a text of the greatest length the
\* transport accepts
Contents == {"", "hi", "max"}
\* message.attachments.size
Attachments == {0, 1}

\* A behaviour runs under one workload: how many rooms, commands, commands
\* that get as far as createThread, inbound messages, rejected sends, rejected
\* createThread requests and filtering threads it may hold, and which texts
\* its messages carry.
Workloads ==
    { [rooms |-> MaxRooms - 1, calls |-> MaxCalls - 1, threads |-> MaxCalls, msgs |-> 0,
       failures |-> 0, rejects |-> MaxRejects, filtered |-> 0, contents |-> {}],
      [rooms |-> MaxRooms, calls |-> MaxCalls, threads |-> 0, msgs |-> 0,
       failures |-> 0, rejects |-> 0, filtered |-> 0, contents |-> {}],
      [rooms |-> 1, calls |-> MaxCalls, threads |-> MaxCalls, msgs |-> 0,
       failures |-> MaxFailures - 1, rejects |-> 0, filtered |-> 0, contents |-> {}],
      [rooms |-> 1, calls |-> MaxCalls - 1, threads |-> MaxCalls, msgs |-> MaxMsgs,
       failures |-> 0, rejects |-> 0, filtered |-> 0, contents |-> {"", "hi"}],
      [rooms |-> 1, calls |-> MaxCalls - 1, threads |-> MaxCalls, msgs |-> MaxMsgs - 1,
       failures |-> MaxFailures, rejects |-> 0, filtered |-> 0, contents |-> {"", "hi"}],
      [rooms |-> 1, calls |-> MaxCalls - 1, threads |-> MaxCalls, msgs |-> MaxMsgs - 1,
       failures |-> 0, rejects |-> 0, filtered |-> MaxFiltered, contents |-> {"max"}] }

NoRoom == 0
Undefined == 0

ChannelType(ch) == IF ch = 0 THEN "PublicThread" ELSE "GuildText"

\* makeId(length): every string of `length` characters of the alphabet can be
\* the result of the `length` random draws.
makeId(length) == [1..length -> 1..NumCharacters]

\* getAnonymousAvatarURL draws one of the default embed avatars, 0..MaxAvatar
\* (0..5 in the program).
MaxAvatar == 0

\* guildMember.displayName / guildMember.user.displayAvatarURL()
RealName(u) == <<"name", u>>
RealAvatar(u) == <<"avatar", u>>
\* `Anonymous ${n}`
AnonymousName(n) == <<"Anonymous", n>>
\* getAnonymousAvatarURL(): one of the default embed avatars
getAnonymousAvatarURL(k) == <<"embed", k>>
\* client.user.username / client.user.displayAvatarURL()
BotName == <<"bot", 0>>
BotAvatar == <<"botAvatar", 0>>
NoName == <<"none", 0>>
\* message.author.username of guild member u
UserName(u) == <<"user", u>>
\* message.author of a message the webhook posted: the webhook's own id
WebhookUser == 0
\* message.reference: <<>> when the message is not a reply
NoReference == <<>>

VARIABLES
    workload,     \* the bounds of this behaviour (one of Workloads)
    variant,      \* which layout of Room.ts runs
    rooms,        \* client.rooms: id -> Room object (NoRoom = no entry)
    room,         \* Room objects: [id, type], by construction order
    numRooms,     \* Room objects constructed so far
    ctor,         \* the Room whose constructor is running (NoRoom = none)
    instances,    \* per Room: instanceManager.instances / Room.instances
    members,      \* per Room: memberManager.members          ("managers")
    memberCount,  \* per Room: Room.memberCount               ("inline")
    inst,         \* RoomInstance objects by thread: [members, collector]
    calls,        \* command invocations and their position
    numCalls,     \* invocations so far
    numUsers,     \* guild members seen so far (they are numbered as they appear)
    webhooks,     \* per channel: number of webhooks the transport holds
    sent,         \* every webhook.send issued, in issue order
    failed,       \* indices of `sent` whose promise was rejected
    numMsgs,      \* "collect" events handled so far
    fetching,     \* synchronizeMessage calls suspended in fetchReference()
    joinLog,      \* per Room: every RoomMember created, in creation order
    filteredOut   \* threads whose collector has filtered a message out

vars == <<workload, variant, rooms, room, numRooms, ctor, instances, members, memberCount,
          inst, calls, numCalls, numUsers, webhooks, sent, failed, numMsgs, fetching,
          joinLog, filteredOut>>

\* ------------------------------------------------------------- helpers
RemoveAt(s, i) == SubSeq(s, 1, i - 1) \o SubSeq(s, i + 1, Len(s))
Range(s) == {s[i] : i \in 1..Len(s)}

\* Array.prototype.indexOf: the first position of x, -1 when absent.
indexOf(s, x) ==
    IF \E i \in 1..Len(s) : s[i] = x
    THEN (CHOOSE i \in 1..Len(s) : s[i] = x /\ \A j \in 1..(i - 1) : s[j] # x) - 1
    ELSE -1

\* Array.prototype.splice(start, 1) with a 0-based start: a negative start
\* counts from the end of the array.
splice1(s, start) ==
    LET from == IF start < 0
                THEN (IF Len(s) + start < 0 THEN 0 ELSE Len(s) + start)
                ELSE (IF start > Len(s) THEN Len(s) ELSE start)
    IN  IF from >= Len(s) THEN s ELSE RemoveAt(s, from + 1)

\* ------------------------------------------------- Room, capacity policy
OneOnOneMaxInstances == 2
OneOnOneMaxMembers == 1

maxInstances(r) ==
    IF room[r].type = "1-on-1" THEN OneOnOneMaxInstances ELSE Undefined
maxMembersPerInstance(r) ==
    IF room[r].type = "1-on-1" THEN OneOnOneMaxMembers ELSE Undefined

\* Room.fromId: client.rooms.get(id), undefined for a key the map lacks.
fromId(id) == IF id \in DOMAIN rooms THEN rooms[id] ELSE NoRoom

\* What a caller can type as a room id: the characters of makeId in lower
\* case (1..NumCharacters) or in upper case (NumCharacters + 1 and up).
TypedIds == [1..IdLength -> 1..(2 * NumCharacters)]

\* Faulty variant of String.prototype.toLowerCase: the string as typed.
toLowerCase_asTyped(id) == id

\* String.prototype.toLowerCase
toLowerCase(id) ==
    [i \in DOMAIN id |-> IF id[i] > NumCharacters THEN id[i] - NumCharacters ELSE id[i]]

\* Faulty variant of isIdTaken: never reports a collision.
isIdTaken_never(id) == FALSE

\* isIdTaken: client.rooms.has(id)
isIdTaken(id) == rooms[id] # NoRoom

\* The mutable objects a callback works on, threaded through the operators below.
Heap == [instances |-> instances, members |-> members, memberCount |-> memberCount,
         inst |-> inst, sent |-> sent, joinLog |-> joinLog]

Store(H) ==
    /\ instances' = H.instances
    /\ members' = H.members
    /\ memberCount' = H.memberCount
    /\ inst' = H.inst
    /\ sent' = H.sent
    /\ joinLog' = H.joinLog

\* ------------------------------------------------------ InstanceManager
\* getAllInstancesExcept: instances.filter(i => i !== instance)
getAllInstancesExcept(H, r, t) ==
    LET Other(i) == i # t IN SelectSeq(H.instances[r], Other)

\* getInstance: instances.find(i => i.thread.id === threadId), <<>> when none
getInstance(H, r, threadId) ==
    LET Same(i) == i = threadId
        found == SelectSeq(H.instances[r], Same)
    IN  IF found = <<>> THEN <<>> ELSE <<Head(found)>>

\* One webhook.send(options) with threadId set: the message as the transport gets it.
Send(r, t, options) ==
    [room |-> r, to |-> t, username |-> options.username, avatarURL |-> options.avatarURL,
     \* the content is `${prefix} ${content}`, or content alone without a prefix
     prefix |-> options.prefix, content |-> options.content, embed |-> options.embed,
     \* not part of the payload: the event the send belongs to
     msg |-> options.msg, src |-> options.src, author |-> options.author]

RECURSIVE sendTo(_, _, _, _)
\* sendTo: one send per target, in order; an unnamed payload goes out under the
\* bot's identity, and the name then stays set for the remaining targets.
sendTo(H, r, targets, options) ==
    IF targets = <<>> THEN H
    ELSE LET named == IF options.username = NoName
                      THEN [options EXCEPT !.username = BotName, !.avatarURL = BotAvatar]
                      ELSE options
         IN  sendTo([H EXCEPT !.sent = Append(@, Send(r, Head(targets), named))],
                    r, Tail(targets), named)

\* deleteInstance: stop the collector of the instance object, then
\* instances.splice(instances.indexOf(instance), 1)
deleteInstance(H, r, t) ==
    [H EXCEPT !.inst[t].collector = "stopped",
              !.instances[r] = splice1(@, indexOf(@, t))]

\* createInstance: new RoomInstance, collectMessages, instances.push
createInstance(H, r, t) ==
    [H EXCEPT !.inst[t] = [members |-> <<>>, collector |-> "live"],
              !.instances[r] = Append(@, t)]

\* -------------------------------------------------------- MemberManager
\* createMemberJoinEmbed: footer text and icon
createMemberJoinEmbed(member) ==
    <<[text |-> <<member.displayName, "joined the room">>, iconURL |-> member.avatar]>>

\* Faulty variant of the join notice: it carries the RoomMember's own name
\* and avatar.
JoinOptions_asMember(member) ==
    [username |-> member.displayName, avatarURL |-> member.avatar, prefix |-> <<>>,
     content |-> "", embed |-> createMemberJoinEmbed(member),
     msg |-> 0, src |-> member.instance, author |-> member.user]

\* { embeds: [createMemberJoinEmbed(roomMember)] }
JoinOptions(member) ==
    [username |-> NoName, avatarURL |-> NoName, prefix |-> <<>>, content |-> "",
     embed |-> createMemberJoinEmbed(member),
     msg |-> 0, src |-> member.instance, author |-> member.user]

\* Room.sendJoinMessage
sendJoinMessage(H, r, t, member) ==
    sendTo(H, r, getAllInstancesExcept(H, r, t), JoinOptions(member))

\* MemberManager.onMemberCreate
onMemberCreate(H, r, t, member) ==
    sendJoinMessage([H EXCEPT !.members[r] = Append(@, member),
                              !.inst[t].members = Append(@, member),
                              !.joinLog[r] = Append(@, member)],
                    r, t, member)

\* Faulty variant of the RoomMember literal: the number is the 0-based index.
NewMember_zeroBased(count, t, u, anonymous, k) ==
    [user |-> u, instance |-> t, anonymous |-> anonymous,
     displayName |-> IF anonymous THEN AnonymousName(count) ELSE RealName(u),
     avatar |-> IF anonymous THEN getAnonymousAvatarURL(k) ELSE RealAvatar(u),
     index |-> count]

\* Faulty variant of the RoomMember literal: the two arms of the displayName
\* conditional are swapped.
NewMember_swapped(count, t, u, anonymous, k) ==
    [user |-> u, instance |-> t, anonymous |-> anonymous,
     displayName |-> IF anonymous THEN RealName(u) ELSE AnonymousName(count + 1),
     avatar |-> IF anonymous THEN getAnonymousAvatarURL(k) ELSE RealAvatar(u),
     index |-> count]

\* The RoomMember literal of createMember / createRoomMember; `count` is
\* members.length ("managers") or memberCount ("inline").  The "inline"
\* RoomMember has no instance field: there the field only labels the record.
NewMember(count, t, u, anonymous, k) ==
    [user |-> u, instance |-> t, anonymous |-> anonymous,
     displayName |-> IF anonymous THEN AnonymousName(count + 1) ELSE RealName(u),
     avatar |-> IF anonymous THEN getAnonymousAvatarURL(k) ELSE RealAvatar(u),
     index |-> count]

\* Faulty variant of the capacity test: > for >=.
InstanceFull_strict(H, r, t) ==
    /\ maxMembersPerInstance(r) # Undefined
    /\ Len(H.inst[t].members) > maxMembersPerInstance(r)

\* The capacity test of createMember / createInstanceRoomMember
InstanceFull(H, r, t) ==
    /\ maxMembersPerInstance(r) # Undefined
    /\ Len(H.inst[t].members) >= maxMembersPerInstance(r)

\* Faulty variant of createMember: the number is taken from the instance's
\* own member list instead of the room-wide one.
createMember_localCount(H, r, t, u, anonymous, k) ==
    IF InstanceFull(H, r, t) THEN [H |-> H, member |-> <<>>]
    ELSE LET member == NewMember(Len(H.inst[t].members), t, u, anonymous, k)
         IN  [H |-> onMemberCreate(H, r, t, member), member |-> <<member>>]

\* MemberManager.createMember: [H, member], member = <<>> when refused
createMember(H, r, t, u, anonymous, k) ==
    IF InstanceFull(H, r, t) THEN [H |-> H, member |-> <<>>]
    ELSE LET member == NewMember(Len(H.members[r]), t, u, anonymous, k)
         IN  [H |-> onMemberCreate(H, r, t, member), member |-> <<member>>]

\* Faulty variant of the member lookup: it never finds anyone.
findInstanceMember_none(H, t, u) == <<>>

\* instance.members.find(member => member.member.id === message.author.id)
findInstanceMember(H, t, u) ==
    LET Same(m) == m.user = u
        found == SelectSeq(H.inst[t].members, Same)
    IN  IF found = <<>> THEN <<>> ELSE <<Head(found)>>

\* Room.getOrCreateMember (the caller has checked instance and message.member)
getOrCreateMember(H, r, t, u) ==
    LET found == findInstanceMember(H, t, u)
    IN  IF found # <<>> THEN [H |-> H, member |-> found]
        ELSE createMember(H, r, t, u, FALSE, 0)

\* ------------------------------------------------ Room, "inline" layout
\* Room.sendToAllExcept: instances.filter(i => i.thread.id !== instance.thread.id),
\* every send under the bot's identity
RECURSIVE sendEach(_, _, _, _)
sendEach(H, r, targets, options) ==
    IF targets = <<>> THEN H
    ELSE sendEach([H EXCEPT !.sent = Append(@, Send(r, Head(targets), options))],
                  r, Tail(targets), options)

sendToAllExcept(H, r, t, options) ==
    LET Other(i) == i # t
    IN  sendEach(H, r, SelectSeq(H.instances[r], Other),
                 [options EXCEPT !.username = BotName, !.avatarURL = BotAvatar])

\* Room.createRoomMember
createRoomMember(H, r, t, u, anonymous, k) ==
    NewMember(H.memberCount[r], t, u, anonymous, k)

\* Room.onRoomMemberCreate: memberCount++, join notice, instance.members.push
onRoomMemberCreate(H, r, t, member) ==
    LET counted == [H EXCEPT !.memberCount[r] = @ + 1, !.joinLog[r] = Append(@, member)]
        noticed == sendToAllExcept(counted, r, t, JoinOptions(member))
    IN  [noticed EXCEPT !.inst[t].members = Append(@, member)]

\* Room.createRoomInstance: the instance literal with members: [], the
\* initiator's onRoomMemberCreate, instances.push
createRoomInstance(H, r, t, initiator) ==
    LET fresh == [H EXCEPT !.inst[t] = [members |-> <<>>, collector |-> "none"]]
        joined == onRoomMemberCreate(fresh, r, t, initiator)
    IN  [joined EXCEPT !.instances[r] = Append(@, t)]

\* Room.startCollectingMessages
startCollectingMessages(H, t) == [H EXCEPT !.inst[t].collector = "live"]

\* Room.createInstanceRoomMember: [H, member], member = <<>> when refused
createInstanceRoomMember(H, r, t, u, anonymous, k) ==
    IF InstanceFull(H, r, t) THEN [H |-> H, member |-> <<>>]
    ELSE LET member == createRoomMember(H, r, t, u, anonymous, k)
         IN  [H |-> onRoomMemberCreate(H, r, t, member), member |-> <<member>>]

\* Room.getOrCreateRoomMember (the caller has found the instance)
getOrCreateRoomMember(H, r, t, u) ==
    LET found == findInstanceMember(H, t, u)
    IN  IF found # <<>> THEN [H |-> H, member |-> found]
        ELSE createInstanceRoomMember(H, r, t, u, FALSE, 0)

\* Room.getAllMembers: instances.flatMap(instance => instance.members)
RECURSIVE flatMembers(_, _)
flatMembers(H, ts) ==
    IF ts = <<>> THEN <<>> ELSE H.inst[Head(ts)].members \o flatMembers(H, Tail(ts))

getAllMembers(H, r) == flatMembers(H, H.instances[r])

\* displayName.includes(name): a display name contains itself, and a guild
\* member's display name contains that member's username.
Includes(displayName, name) ==
    \/ displayName = name
    \/ displayName[1] = "name" /\ name = UserName(displayName[2])

\* Room.findMember: getAllMembers().find(m => m.displayName.includes(name))
findMember(H, r, name) ==
    LET Named(m) == Includes(m.displayName, name)
        found == SelectSeq(getAllMembers(H, r), Named)
    IN  IF found = <<>> THEN <<>> ELSE <<Head(found)>>

\* userMention(id)
userMention(id) == [kind |-> "<@id>", id |-> id, name |-> NoName]
\* `@${displayName}`
nameMention(displayName) == [kind |-> "@name", id |-> WebhookUser, name |-> displayName]

\* Room.getReplyPrefix(instance, repliedTo): `${quotePrefix}\n${mention}`
getReplyPrefix(H, r, t, repliedTo) ==
    LET roomMember == findMember(H, r, repliedTo.username)
        quotePrefix == IF repliedTo.content # "" THEN <<repliedTo.content>> ELSE <<>>
        mention ==
            IF roomMember = <<>> THEN userMention(repliedTo.authorId)
            ELSE IF \/ ~roomMember[1].anonymous
                    \/ \E m \in Range(H.inst[t].members) : m = roomMember[1]
                 THEN userMention(roomMember[1].user)
                 ELSE nameMention(roomMember[1].displayName)
    IN  <<[quote |-> quotePrefix, mention |-> mention]>>

\* The send loop of Room.synchronizeMessage for a reply: every target gets
\* the content behind its own reply prefix.
RECURSIVE sendReplies(_, _, _, _, _)
sendReplies(H, r, targets, options, repliedTo) ==
    IF targets = <<>> THEN H
    ELSE LET t == Head(targets)
             prefixed == [options EXCEPT !.prefix = getReplyPrefix(H, r, t, repliedTo)]
         IN  sendReplies([H EXCEPT !.sent = Append(@, Send(r, t, prefixed))],
                         r, Tail(targets), options, repliedTo)

\* ------------------------------------------------------------------ Init
NoCall == [pc |-> "idle", kind |-> "none", room |-> NoRoom, ch |-> 0, user |-> 0,
           anonymous |-> FALSE, k |-> 0]

\* A command that has returned keeps only its result and its room.
Returned(result, r) == [NoCall EXCEPT !.pc = result, !.room = r]

Init ==
    /\ workload \in Workloads
    /\ numUsers = 0
    /\ variant \in {"managers", "inline"}
    /\ rooms = [id \in makeId(IdLength) |-> NoRoom]
    /\ room = [r \in RoomRefs |-> [id |-> <<>>, type |-> "none"]]
    /\ numRooms = 0
    /\ ctor = NoRoom
    /\ instances = [r \in RoomRefs |-> <<>>]
    /\ members = [r \in RoomRefs |-> <<>>]
    /\ memberCount = [r \in RoomRefs |-> 0]
    /\ inst = [t \in Threads |-> [members |-> <<>>, collector |-> "none"]]
    /\ calls = [c \in Calls |-> NoCall]
    /\ numCalls = 0
    /\ webhooks = [ch \in Channels |-> 0]
    /\ sent = <<>>
    /\ failed = {}
    /\ numMsgs = 0
    /\ fetching = {}
    /\ joinLog = [r \in RoomRefs |-> <<>>]
    /\ filteredOut = {}

\* No callback runs while the (synchronous) Room constructor is looping.
Idle == ctor = NoRoom

\* Guild members are numbered in the order they first act: the acting member
\* is one seen before or the next new one.
Acting(u) ==
    /\ u <= numUsers + 1
    /\ numUsers' = IF u > numUsers THEN u ELSE numUsers

\* -------------------------------------------------------------- commands
\* create (part_001 lines 52-70, then commands/create/voice.ts lines 17-36):
\* refuse outside a server text channel; otherwise new Room(client, roomType)
\* runs up to createRoomId.
CreateCommand(c, roomType, u, anonymous, k, ch) ==
    /\ Idle
    /\ c = numCalls + 1
    /\ c <= workload.calls
    /\ numCalls' = c
    /\ Acting(u)
    /\ IF ChannelType(ch) # "GuildText"
       THEN /\ calls' = [calls EXCEPT ![c] = Returned("refused", NoRoom)]
            /\ UNCHANGED <<room, numRooms, ctor>>
       ELSE /\ numRooms < workload.rooms
            /\ numRooms' = numRooms + 1
            /\ ctor' = numRooms + 1
            /\ room' = [room EXCEPT ![numRooms + 1].type = roomType]
            /\ calls' = [calls EXCEPT ![c] = [pc |-> "ctor", kind |-> "create",
                                              room |-> numRooms + 1, ch |-> ch, user |-> u,
                                              anonymous |-> anonymous, k |-> k]]
    /\ UNCHANGED <<fetching, filteredOut, workload, variant, rooms, instances, members, memberCount, inst, webhooks,
                   sent, failed, numMsgs, joinLog>>

\* Room.createRoomId, one turn of the do-while loop, and on exit the rest of
\* the constructor (this.id = id; client.rooms.set(id, this)) and of the
\* command up to its first await (interaction.reply).
createRoomId(c, id) ==
    /\ ctor # NoRoom
    /\ calls[c].pc = "ctor"
    /\ IF isIdTaken(id)
       THEN UNCHANGED <<rooms, room, ctor, calls>>
       ELSE /\ room' = [room EXCEPT ![ctor].id = id]
            /\ rooms' = [rooms EXCEPT ![id] = ctor]
            /\ ctor' = NoRoom
            /\ calls' = [calls EXCEPT ![c].pc = "reply"]
    /\ UNCHANGED <<fetching, filteredOut, workload, numUsers, variant, numRooms, instances, members, memberCount, inst, numCalls,
                   webhooks, sent, failed, numMsgs, joinLog>>

\* join (part_000 lines 15-27): lowercase the typed id and look it up; throw
\* when the interaction is not in a cached guild; then an unknown id is
\* answered "Room id is invalid" and nothing else happens.
JoinCommand(c, id, u, anonymous, k, ch, inCachedGuild) ==
    /\ Idle
    /\ c = numCalls + 1
    /\ c <= workload.calls
    /\ numCalls' = c
    /\ Acting(u)
    /\ LET roomId == toLowerCase(id)
       IN  calls' = [calls EXCEPT ![c] =
                        IF ~inCachedGuild THEN Returned("notCached", NoRoom)
                        ELSE IF fromId(roomId) = NoRoom THEN Returned("invalid", NoRoom)
                        ELSE [pc |-> "reply", kind |-> "join", room |-> fromId(roomId),
                              ch |-> ch, user |-> u, anonymous |-> anonymous, k |-> k]]
    /\ UNCHANGED <<fetching, filteredOut, workload, variant, rooms, room, numRooms, ctor, instances, members, memberCount,
                   inst, webhooks, sent, failed, numMsgs, joinLog>>

\* ---------------------------------------------------------- createThread
\* Where a command is that has not called createThread.
NotEntered == {"idle", "ctor", "reply", "refused", "invalid", "notCached"}

\* Faulty variant of the capacity test of createThread: > for >=.
RoomFull_strict(r) ==
    /\ maxInstances(r) # Undefined
    /\ Len(instances[r]) > maxInstances(r)

\* The capacity test of createThread
RoomFull(r) ==
    /\ maxInstances(r) # Undefined
    /\ Len(instances[r]) >= maxInstances(r)

\* Faulty variant of createThread: a call that throws or returns false takes
\* the room out of client.rooms.
createThread_unregistering(c) ==
    /\ Idle
    /\ calls[c].pc = "reply"
    /\ Cardinality({d \in Calls : calls[d].pc \notin NotEntered}) < workload.threads
    /\ calls' = [calls EXCEPT ![c] =
                    IF ChannelType(calls[c].ch) # "GuildText"
                    THEN Returned("threw", calls[c].room)
                    ELSE IF RoomFull(calls[c].room) THEN Returned("false", calls[c].room)
                    ELSE [@ EXCEPT !.pc = "fetchWebhooks"]]
    /\ rooms' = IF ChannelType(calls[c].ch) # "GuildText" \/ RoomFull(calls[c].room)
                THEN [rooms EXCEPT ![room[calls[c].room].id] = NoRoom]
                ELSE rooms
    /\ UNCHANGED <<fetching, filteredOut, workload, numUsers, variant, room, numRooms, ctor, instances, members, memberCount,
                   inst, numCalls, webhooks, sent, failed, numMsgs, joinLog>>

\* Faulty variant of createThread: the capacity test comes before the
\* channel-kind test.
createThread_capacityFirst(c) ==
    /\ Idle
    /\ calls[c].pc = "reply"
    /\ Cardinality({d \in Calls : calls[d].pc \notin NotEntered}) < workload.threads
    /\ calls' = [calls EXCEPT ![c] =
                    IF RoomFull(calls[c].room) THEN Returned("false", calls[c].room)
                    ELSE IF ChannelType(calls[c].ch) # "GuildText"
                    THEN Returned("threw", calls[c].room)
                    ELSE [@ EXCEPT !.pc = "fetchWebhooks"]]
    /\ UNCHANGED <<fetching, filteredOut, workload, numUsers, variant, rooms, room, numRooms, ctor, instances, members, memberCount,
                   inst, numCalls, webhooks, sent, failed, numMsgs, joinLog>>

\* interaction.reply resolves and createThread runs up to its first await:
\* the channel-kind check, the capacity check, then fetchWebhooks is issued.
createThread(c) ==
    /\ Idle
    /\ calls[c].pc = "reply"
    /\ Cardinality({d \in Calls : calls[d].pc \notin NotEntered}) < workload.threads
    /\ calls' = [calls EXCEPT ![c] =
                    IF ChannelType(calls[c].ch) # "GuildText"
                    THEN Returned("threw", calls[c].room)
                    ELSE IF RoomFull(calls[c].room) THEN Returned("false", calls[c].room)
                    ELSE [@ EXCEPT !.pc = "fetchWebhooks"]]
    /\ UNCHANGED <<fetching, filteredOut, workload, numUsers, variant, rooms, room, numRooms, ctor, instances, members, memberCount,
                   inst, numCalls, webhooks, sent, failed, numMsgs, joinLog>>

\* Faulty variant of getOrCreateWebhook: the thread is entered in the room's
\* instance list while the webhook is still being obtained.
getOrCreateWebhook_instanceFirst(c) ==
    /\ Idle
    /\ calls[c].pc = "fetchWebhooks"
    /\ calls' = [calls EXCEPT ![c].pc =
                    IF webhooks[calls[c].ch] > 0 THEN "startThread" ELSE "createWebhook"]
    /\ instances' = [instances EXCEPT ![calls[c].room] = Append(@, c)]
    /\ UNCHANGED <<fetching, filteredOut, workload, numUsers, variant, rooms, room, numRooms, ctor, members, memberCount,
                   inst, numCalls, webhooks, sent, failed, numMsgs, joinLog>>

\* getOrCreateWebhook after channel.fetchWebhooks(): reuse the first webhook,
\* or issue createWebhook.
getOrCreateWebhook(c) ==
    /\ Idle
    /\ calls[c].pc = "fetchWebhooks"
    /\ calls' = [calls EXCEPT ![c].pc =
                    IF webhooks[calls[c].ch] > 0 THEN "startThread" ELSE "createWebhook"]
    /\ UNCHANGED <<fetching, filteredOut, workload, numUsers, variant, rooms, room, numRooms, ctor, instances, members, memberCount,
                   inst, numCalls, webhooks, sent, failed, numMsgs, joinLog>>

\* channel.createWebhook resolves; message.startThread is issued.
createWebhook(c) ==
    /\ Idle
    /\ calls[c].pc = "createWebhook"
    /\ webhooks' = [webhooks EXCEPT ![calls[c].ch] = @ + 1]
    /\ calls' = [calls EXCEPT ![c].pc = "startThread"]
    /\ UNCHANGED <<fetching, filteredOut, workload, numUsers, variant, rooms, room, numRooms, ctor, instances, members, memberCount,
                   inst, numCalls, sent, failed, numMsgs, joinLog>>

\* The tail of createThread once message.startThread has resolved.
\*   managers: createInstance, then memberManager.createMember(instance, initiator)
\*   inline:   createRoomMember, createRoomInstance, startCollectingMessages
CreateThreadTail(H, c) ==
    LET r == calls[c].room
        u == calls[c].user
        a == calls[c].anonymous
        k == calls[c].k
    IN  IF variant = "managers"
        THEN createMember(createInstance(H, r, c), r, c, u, a, k).H
        ELSE startCollectingMessages(
                 createRoomInstance(H, r, c, createRoomMember(H, r, c, u, a, k)), c)

startThread(c) ==
    /\ Idle
    /\ calls[c].pc = "startThread"
    /\ Store(CreateThreadTail(Heap, c))
    /\ calls' = [calls EXCEPT ![c] = Returned("true", calls[c].room)]
    /\ UNCHANGED <<fetching, filteredOut, workload, numUsers, variant, rooms, room, numRooms, ctor, numCalls, webhooks, failed,
                   numMsgs>>

\* The promise createThread is awaiting (channel.fetchWebhooks,
\* channel.createWebhook or message.startThread) rejects: createThread
\* rejects with it, and so does the command.
createThreadRejected(c) ==
    /\ Idle
    /\ calls[c].pc \in {"fetchWebhooks", "createWebhook", "startThread"}
    /\ Cardinality({d \in Calls : calls[d].pc = "rejected"}) < workload.rejects
    /\ calls' = [calls EXCEPT ![c] = Returned("rejected", calls[c].room)]
    /\ UNCHANGED <<fetching, filteredOut, workload, numUsers, variant, rooms, room, numRooms, ctor, instances, members,
                   memberCount, inst, numCalls, webhooks, sent, failed, numMsgs, joinLog>>

\* ---------------------------------------------------- synchronizeMessage
\* Faulty variant of messageOptions: the name and avatar are read from the
\* guild member instead of the RoomMember.
MessageOptions_guildMember(member, content, event) ==
    [username |-> RealName(member.user), avatarURL |-> RealAvatar(member.user),
     prefix |-> <<>>, content |-> content, embed |-> <<>>, msg |-> event.msg,
     src |-> event.src, author |-> event.author]

\* messageOptions of synchronizeMessage; `event` names the inbound message
\* (its number, thread and author) and is not part of the payload.
MessageOptions(member, content, event) ==
    [username |-> member.displayName, avatarURL |-> member.avatar, prefix |-> <<>>,
     content |-> content, embed |-> <<>>, msg |-> event.msg, src |-> event.src,
     author |-> event.author]

\* InstanceManager.synchronizeMessage: [H, outcome, member, pending]; this
\* layout never reads message.reference
InstanceManager_synchronizeMessage(H, r, t, u, hasMember, content, event) ==
    LET Dropped(G) == [H |-> G, outcome |-> "dropped", member |-> <<>>, pending |-> {}]
    IN  IF ~hasMember \/ content = "" THEN Dropped(H)
        ELSE IF getInstance(H, r, t) = <<>> THEN Dropped(H)
        ELSE LET got == getOrCreateMember(H, r, t, u)
             IN  IF got.member = <<>> THEN Dropped(got.H)
                 ELSE [H |-> sendTo(got.H, r, getAllInstancesExcept(got.H, r, t),
                                    MessageOptions(got.member[1], content, event)),
                       outcome |-> "relayed", member |-> got.member, pending |-> {}]

\* Room.synchronizeMessage up to its await: [H, outcome, member, pending].
\* A reply suspends in message.fetchReference() with the targets and the
\* RoomMember it has computed; any other message is sent at once.
Room_synchronizeMessage(H, r, t, u, hasMember, content, reference, event) ==
    LET Dropped(G, how) == [H |-> G, outcome |-> how, member |-> <<>>, pending |-> {}]
    IN  IF ~hasMember \/ content = "" THEN Dropped(H, "dropped")
        ELSE LET Other(i) == i # t
                 targets == SelectSeq(H.instances[r], Other)
             IN  IF getInstance(H, r, t) = <<>> THEN Dropped(H, "threw")
                 ELSE LET got == getOrCreateRoomMember(H, r, t, u)
                      IN  IF got.member = <<>> THEN Dropped(got.H, "dropped")
                          ELSE IF reference # NoReference
                          THEN [H |-> got.H, outcome |-> "fetching", member |-> got.member,
                                pending |-> {[event |-> event, room |-> r,
                                              targets |-> targets,
                                              member |-> got.member[1],
                                              content |-> content,
                                              reference |-> reference[1]]}]
                          ELSE [H |-> sendEach(got.H, r, targets,
                                               MessageOptions(got.member[1], content, event)),
                                outcome |-> "relayed", member |-> got.member,
                                pending |-> {}]

synchronizeMessage(H, r, t, u, hasMember, content, reference, event) ==
    IF variant = "managers"
    THEN InstanceManager_synchronizeMessage(H, r, t, u, hasMember, content, event)
    ELSE Room_synchronizeMessage(H, r, t, u, hasMember, content, reference, event)

\* The messages of thread t a new message can be a reply to: one a guild
\* member posted there, or one the webhook relayed there.
References(t) ==
    {<<[authorId |-> v, username |-> UserName(v), content |-> "hi"]>> : v \in 1..numUsers}
    \cup {<<[authorId |-> WebhookUser, username |-> sent[i].username,
             content |-> sent[i].content]>> : i \in {j \in 1..Len(sent) : sent[j].to = t}}

\* The collector of thread t emits "collect" for a message that passed its
\* filter; the callback runs synchronizeMessage.  `event` carries the
\* message's number, thread and author, and the instances registered beside
\* the thread when the message arrives.  No layout reads message.attachments.
Collect(t, u, hasMember, content, attachments, reference) ==
    /\ Idle
    /\ inst[t].collector = "live"
    /\ numMsgs < workload.msgs
    /\ content \in workload.contents
    /\ Acting(u)
    /\ variant = "managers" => reference = NoReference
    /\ numMsgs' = numMsgs + 1
    /\ LET synchronized ==
               synchronizeMessage(Heap, calls[t].room, t, u, hasMember, content, reference,
                                  [msg |-> numMsgs + 1, src |-> t, author |-> u,
                                   others |-> Range(instances[calls[t].room]) \ {t}])
       IN  /\ Store(synchronized.H)
           /\ fetching' = fetching \cup synchronized.pending
    /\ UNCHANGED <<filteredOut, workload, variant, rooms, room, numRooms, ctor, calls, numCalls, webhooks, failed>>

\* Faulty variant of the collector's filter: system messages pass.
filter_webhookOnly(webhookId, system) == ~webhookId

\* The collector's filter: message => !message.webhookId && !message.system
filter(webhookId, system) == ~webhookId /\ ~system

\* A message is created in thread t.  The collector emits "collect" for it
\* when it passes the filter and ignores it otherwise.  A webhook message has
\* no guild member (message.member is null).  Webhook and system messages
\* arrive only under a workload that admits them.
messageCreate(t, u, hasMember, content, attachments, reference, webhookId, system) ==
    /\ webhookId => ~hasMember
    /\ (webhookId \/ system) => workload.filtered > 0
    /\ IF filter(webhookId, system)
       THEN Collect(t, u, hasMember, content, attachments, reference)
       ELSE /\ Idle
            /\ inst[t].collector = "live"
            /\ content \in workload.contents
            /\ t \notin filteredOut
            /\ Cardinality(filteredOut) < workload.filtered
            /\ filteredOut' = filteredOut \cup {t}
            /\ UNCHANGED <<workload, variant, rooms, room, numRooms, ctor, instances, members,
                           memberCount, inst, calls, numCalls, numUsers, webhooks, sent,
                           failed, numMsgs, fetching, joinLog>>

\* message.fetchReference() resolves: synchronizeMessage resumes and sends to
\* the targets it computed before the await.
fetchReferenceResolved(p) ==
    /\ Idle
    /\ p \in fetching
    /\ fetching' = fetching \ {p}
    /\ Store(sendReplies(Heap, p.room, p.targets,
                         MessageOptions(p.member, p.content, p.event), p.reference))
    /\ UNCHANGED <<filteredOut, workload, numUsers, variant, rooms, room, numRooms, ctor, calls, numCalls,
                   webhooks, failed, numMsgs>>

\* message.fetchReference() rejects: the promise of synchronizeMessage
\* rejects with it and nothing is sent.
fetchReferenceRejected(p) ==
    /\ Idle
    /\ p \in fetching
    /\ fetching' = fetching \ {p}
    /\ UNCHANGED <<filteredOut, workload, numUsers, variant, rooms, room, numRooms, ctor, instances, members,
                   memberCount, inst, calls, numCalls, webhooks, sent, failed, numMsgs,
                   joinLog>>

\* ------------------------------------------------------------ send fails
\* The promise of send number i is rejected with `reason`; its catch handler
\* runs deleteInstance on the instance the send was addressed to.
SendRejected(i, reason) ==
    /\ Idle
    /\ i \in 1..Len(sent)
    /\ i \notin failed
    /\ Cardinality(failed) < workload.failures
    /\ failed' = failed \cup {i}
    /\ Store(deleteInstance(Heap, sent[i].room, sent[i].to))
    /\ UNCHANGED <<fetching, filteredOut, workload, numUsers, variant, rooms, room, numRooms, ctor, calls, numCalls, webhooks,
                   numMsgs>>

\* ------------------------------------------------------------------ Next
Avatars(anonymous) == IF anonymous THEN 0..MaxAvatar ELSE {0}

\* The threads whose collector is running and can be handed one more message
\* under the workload, and the values of message.webhookId and message.system
\* the workload admits.
Listening ==
    {t \in Threads : /\ inst[t].collector = "live"
                     /\ \/ numMsgs < workload.msgs
                        \/ Cardinality(filteredOut) < workload.filtered}
Flags == IF workload.filtered > 0 THEN BOOLEAN ELSE {FALSE}

Next ==
    \/ \E c \in Calls, roomType \in {"1-on-1", "Party"}, u \in Users, a \in BOOLEAN,
          ch \in Channels : \E k \in Avatars(a) : CreateCommand(c, roomType, u, a, k, ch)
    \/ \E c \in Calls, id \in makeId(IdLength) : createRoomId(c, id)
    \/ \E c \in Calls, id \in TypedIds, u \in Users, a \in BOOLEAN, ch \in Channels,
          inCachedGuild \in BOOLEAN :
              \E k \in Avatars(a) : JoinCommand(c, id, u, a, k, ch, inCachedGuild)
    \/ \E c \in Calls : createThread(c)
    \/ \E c \in Calls : getOrCreateWebhook(c)
    \/ \E c \in Calls : createWebhook(c)
    \/ \E c \in Calls : startThread(c)
    \/ \E c \in Calls : createThreadRejected(c)
    \/ \E t \in Listening, u \in Users, hasMember \in BOOLEAN, content \in workload.contents :
          \E attachments \in Attachments, reference \in References(t) \cup {NoReference},
             webhookId \in Flags, system \in Flags :
              messageCreate(t, u, hasMember, content, attachments, reference, webhookId,
                            system)
    \/ \E p \in fetching : fetchReferenceResolved(p)
    \/ \E p \in fetching : fetchReferenceRejected(p)
    \/ \E i \in 1..Len(sent), reason \in {"ChannelGone", "TransientSendError"} :
          SendRejected(i, reason)

Spec == Init /\ [][Next]_vars

\* The constructor's do-while loop keeps drawing: a draw that can leave the
\* loop is eventually made.
FairSpec == Spec /\ WF_vars(\E c \in Calls, id \in makeId(IdLength) : createRoomId(c, id))

\* ================================================================ claims
Constructed(r) == room[r].id # <<>>
Registered(r) == Range(instances[r])
NewSends == (Len(sent) + 1)..Len(sent')
OneOnOne(r) == room[r].type = "1-on-1"

\* C1: a 1-on-1 room never has more than 2 registered instances.
C1_OneOnOneAtMostTwoInstances ==
    \A r \in RoomRefs : OneOnOne(r) => Len(instances[r]) <= OneOnOneMaxInstances

\* C2: in a 1-on-1 room every instance has at most 1 member, whatever
\* createThread and auto-joins from inbound messages do.
C2_OneOnOneAtMostOneMember ==
    \A t \in Threads :
        (calls[t].room # NoRoom /\ OneOnOne(calls[t].room))
            => Len(inst[t].members) <= OneOnOneMaxMembers

C2_Witness ==
    \E t \in Threads :
        /\ calls[t].room # NoRoom
        /\ OneOnOne(calls[t].room)
        /\ inst[t].collector = "live"
        /\ Len(inst[t].members) = 1
        /\ numMsgs = 2
        /\ numUsers = 2

\* C3: createThread on a 1-on-1 room that already holds 2 instances returns
\* false and changes nothing: no webhook, no thread, no instance, no member,
\* no join notice.
C3_FullRoomRefusesWithoutEffect ==
    [][\A c \in Calls :
          ( /\ calls[c].pc = "reply"
            /\ calls'[c].pc # "reply"
            /\ ChannelType(calls[c].ch) = "GuildText"
            /\ OneOnOne(calls[c].room)
            /\ Len(instances[calls[c].room]) >= OneOnOneMaxInstances )
          => ( /\ calls'[c].pc = "false"
               /\ UNCHANGED <<rooms, room, instances, members, memberCount, inst,
                              webhooks, sent, joinLog>> )]_vars

C3_Witness ==
    \E c \in Calls :
        /\ calls[c].pc = "false"
        /\ Len(instances[calls[c].room]) = 2

\* C4: a qualifying message synchronized from instance A by an admitted
\* participant is sent to every other instance registered at that moment and
\* never to A.  The sends of a message are due in the step that ends its
\* synchronizeMessage call: the "collect" step itself, or for a reply the
\* step that settles fetchReference().
C4_FanOutToAllOthersNeverSource ==
    [][ /\ \A t \in Threads, u \in Users, content \in Contents \ {""},
             attachments \in Attachments :
              ( /\ Collect(t, u, TRUE, content, attachments, NoReference)
                /\ t \in Registered(calls[t].room)
                /\ \E m \in Range(inst'[t].members) : m.user = u )
              => \A o \in Registered(calls[t].room) \ {t} :
                     \E i \in NewSends : sent'[i].to = o /\ sent'[i].msg = numMsgs'
        /\ \A p \in fetching \ fetching' :
              \A o \in p.event.others :
                  \E i \in NewSends : sent'[i].to = o /\ sent'[i].msg = p.event.msg
        /\ \A i \in NewSends : sent'[i].msg > 0 => sent'[i].to # sent'[i].src ]_vars

\* C5: after a send to an instance failed because its channel is gone, the
\* instance is not in the instance list and none of its members is in the
\* room-wide membership list.
RoomWideMembers(H, r) == IF variant = "managers" THEN H.members[r] ELSE getAllMembers(H, r)

C5_GoneInstanceAndItsMembersRemoved ==
    [][\A i \in 1..Len(sent) :
          SendRejected(i, "ChannelGone")
          => ( /\ sent[i].to \notin Range(instances'[sent[i].room])
               /\ \A m \in Range(RoomWideMembers(Heap', sent[i].room)) :
                     m.instance # sent[i].to )]_vars

\* C6: a message relayed for a participant who joined anonymously goes out
\* under that participant's "Anonymous n" name and synthesized avatar, never
\* under the real name; and a RoomMember of an instance never changes.
C6_RelayedUnderAnonymousIdentity ==
    \A i \in 1..Len(sent) :
        sent[i].msg > 0 =>
            \A m \in Range(joinLog[sent[i].room]) :
                (m.user = sent[i].author /\ m.instance = sent[i].src /\ m.anonymous)
                => ( /\ sent[i].username = m.displayName
                     /\ sent[i].username[1] = "Anonymous"
                     /\ sent[i].username # RealName(sent[i].author)
                     /\ sent[i].avatarURL = m.avatar
                     /\ sent[i].avatarURL[1] = "embed" )

C6_MembersFixed ==
    \A t \in Threads : \A j \in 1..Len(inst[t].members) :
        /\ j <= Len(inst'[t].members)
        /\ inst'[t].members[j] = inst[t].members[j]

C6_AnonymityPreserved == [][C6_MembersFixed /\ C6_RelayedUnderAnonymousIdentity']_vars

C6_Witness ==
    \E i \in 1..Len(sent) :
        /\ sent[i].msg > 0
        /\ sent[i].username[1] = "Anonymous"
        /\ \E m \in Range(inst[sent[i].src].members) :
              m.user = sent[i].author /\ m.anonymous

\* C7: within one room the number n of "Anonymous n" strictly increases over
\* successive anonymous participants, so no n is given twice.
C7_AnonymousNumberStrictlyIncreasing ==
    \A r \in RoomRefs : \A i, j \in 1..Len(joinLog[r]) :
        (i < j /\ joinLog[r][i].anonymous /\ joinLog[r][j].anonymous)
            => joinLog[r][i].displayName[2] < joinLog[r][j].displayName[2]

C7_Witness ==
    \E r \in RoomRefs : \E i, j \in 1..Len(joinLog[r]) :
        /\ i < j
        /\ joinLog[r][i].anonymous
        /\ joinLog[r][j].anonymous
        /\ failed # {}
        /\ joinLog[r][i].instance \notin Registered(r)

\* C8 as claimed: the k-th anonymous participant of a room is "Anonymous k",
\* whatever non-anonymous participants the room has.
AnonymousRank(r, j) == Cardinality({i \in 1..j : joinLog[r][i].anonymous})

C8_KthAnonymousIsAnonymousK ==
    \A r \in RoomRefs : \A j \in 1..Len(joinLog[r]) :
        joinLog[r][j].anonymous
            => joinLog[r][j].displayName = AnonymousName(AnonymousRank(r, j))

\* C8 amended: an anonymous participant that is the k-th participant of any
\* kind created in the room is "Anonymous k"; after exactly one prior
\* participant the name is "Anonymous 2".
C8_AnonymousNumberIsRoomOrdinal ==
    \A r \in RoomRefs : \A j \in 1..Len(joinLog[r]) :
        /\ joinLog[r][j].index = j - 1
        /\ joinLog[r][j].anonymous => joinLog[r][j].displayName = AnonymousName(j)

C8_Witness ==
    \E r \in RoomRefs :
        /\ Len(joinLog[r]) >= 2
        /\ joinLog[r][1].anonymous
        /\ joinLog[r][2].anonymous
        /\ joinLog[r][2].displayName = AnonymousName(2)

\* C9: no two registered rooms share an id, and the table entry of a
\* registered room is never replaced by a later creation.
C9_RoomIdsUnique ==
    \A r1, r2 \in RoomRefs :
        (Constructed(r1) /\ Constructed(r2))
            => ( /\ (r1 # r2 => room[r1].id # room[r2].id)
                 /\ rooms[room[r1].id] = r1 )

C9_Witness ==
    \E r1, r2 \in RoomRefs : r1 # r2 /\ Constructed(r1) /\ Constructed(r2)

\* C10 as claimed: in a Party room, every message with content c posted in X
\* by X's non-anonymous initiator goes out to another instance Y under the
\* initiator's real display name with content exactly c.
InitiatorPost(t, u) ==
    /\ room[calls[t].room].type = "Party"
    /\ t \in Registered(calls[t].room)
    /\ inst[t].members # <<>>
    /\ inst[t].members[1].user = u
    /\ ~inst[t].members[1].anonymous

ExactlyFrom(i, u, content) ==
    /\ sent'[i].username = RealName(u)
    /\ sent'[i].prefix = <<>>
    /\ sent'[i].content = content

C10_EveryInitiatorMessageRelayedVerbatim ==
    [][\A i \in NewSends :
          /\ \A t \in Threads, u \in Users, content \in Contents \ {""},
             attachments \in Attachments :
                ( /\ Collect(t, u, TRUE, content, attachments, NoReference)
                  /\ InitiatorPost(t, u)
                  /\ sent'[i].msg = numMsgs' )
                => ExactlyFrom(i, u, content)
          /\ \A p \in fetching \ fetching' :
                (InitiatorPost(p.event.src, p.event.author) /\ sent'[i].msg = p.event.msg)
                => ExactlyFrom(i, p.event.author, p.content) ]_vars

\* C10 amended: in a Party room, a message with content c that is not a reply,
\* posted in X by X's non-anonymous initiator, is sent to every other instance
\* Y under the initiator's real display name with content exactly c.
C10_InitiatorRelayedUnderRealName ==
    [][\A t \in Threads, u \in Users, content \in Contents \ {""},
             attachments \in Attachments :
          ( /\ Collect(t, u, TRUE, content, attachments, NoReference)
            /\ InitiatorPost(t, u) )
          => \A y \in Registered(calls[t].room) \ {t} :
                 \E i \in NewSends : sent'[i].to = y /\ ExactlyFrom(i, u, content) ]_vars

C10_Witness ==
    \E i \in 1..Len(sent) :
        /\ sent[i].msg > 0
        /\ room[sent[i].room].type = "Party"
        /\ sent[i].username = RealName(sent[i].author)
        /\ sent[i].prefix = <<>>
        /\ sent[i].content = "hi"
        /\ inst[sent[i].src].members[1].user = sent[i].author

\* C11: a message posted in an instance that is at maxMembersPerInstance by
\* someone who is not a member of it creates no RoomMember (the room-wide and
\* instance member lists and the numbering are unchanged, no join notice is
\* sent) and is relayed to no instance.
NonMember(t, u) == \A m \in Range(inst[t].members) : m.user # u

AtCapacity(t) ==
    /\ inst[t].collector = "live"
    /\ OneOnOne(calls[t].room)
    /\ Len(inst[t].members) >= OneOnOneMaxMembers

C11_FullInstanceAdmitsNoOne ==
    [][\A t \in Threads, u \in Users :
          (numMsgs' # numMsgs /\ AtCapacity(t) /\ NonMember(t, u))
          => \A hasMember \in BOOLEAN, content \in Contents, attachments \in Attachments,
                reference \in References(t) \cup {NoReference} :
                 Collect(t, u, hasMember, content, attachments, reference)
                 => UNCHANGED <<instances, members, memberCount, inst, joinLog, sent,
                                fetching>> ]_vars

\* The only command so far was made by the first user, and a second user has
\* posted in the full instance it started.
C11_Witness ==
    \E t \in Threads :
        /\ numCalls = 1
        /\ AtCapacity(t)
        /\ inst[t].members[1].user = 1
        /\ numUsers = 2
        /\ numMsgs >= 1
        /\ sent = <<>>

\* C12: messages of one source instance are relayed in delivery order: to
\* every target, the send for an earlier message is issued before the send
\* for a later one, also when the earlier message is a reply.
C12_RelayedInDeliveryOrder ==
    \A i, j \in 1..Len(sent) :
        ( /\ i < j
          /\ sent[i].msg > 0
          /\ sent[j].msg > 0
          /\ sent[i].src = sent[j].src
          /\ sent[i].to = sent[j].to )
        => sent[i].msg <= sent[j].msg

\* C13: a registered room stays registered whatever happens: instance
\* removal, a room left without instances or members, and a createThread
\* that returns false or throws never take its entry out of the room table.
C13_RegisteredRoomStaysRegistered ==
    [][\A id \in makeId(IdLength) : rooms[id] # NoRoom => rooms'[id] = rooms[id]]_vars

\* A registered room whose every instance has been removed.
C13_Witness ==
    \E r \in RoomRefs :
        /\ Constructed(r)
        /\ rooms[room[r].id] = r
        /\ instances[r] = <<>>
        /\ failed # {}
        /\ \E c \in Calls : calls[c].room = r /\ calls[c].pc = "true"

\* C14: createThread for a message whose channel is not a top-level text
\* channel throws before any effect: no webhook is fetched or created, no
\* thread is started, and the room's instance list, member lists and
\* numbering are unchanged.
C14_WrongChannelThrowsWithoutEffect ==
    [][\A c \in Calls :
          ( /\ calls[c].pc = "reply"
            /\ calls'[c].pc # "reply"
            /\ ChannelType(calls[c].ch) # "GuildText" )
          => ( /\ calls'[c].pc = "threw"
               /\ UNCHANGED <<rooms, room, instances, members, memberCount, inst,
                              webhooks, sent, joinLog>> )]_vars

\* createThread has thrown on a room that was also at its instance limit.
C14_Witness ==
    \E c \in Calls :
        /\ calls[c].pc = "threw"
        /\ OneOnOne(calls[c].room)
        /\ Len(instances[calls[c].room]) = OneOnOneMaxInstances

\* C15: a send that fails with a transient error, not because the channel is
\* gone, does not remove the target instance: it is still in the room's
\* instance list afterwards and its collector is still live.
C15_TransientFailureKeepsInstance ==
    [][\A i \in 1..Len(sent) :
          ( /\ SendRejected(i, "TransientSendError")
            /\ sent[i].to \in Registered(sent[i].room)
            /\ inst[sent[i].to].collector = "live" )
          => ( /\ sent[i].to \in Range(instances'[sent[i].room])
               /\ inst'[sent[i].to].collector = "live" )]_vars

\* C16: an instance that leaves the instance list has had its collector
\* stopped, and a message collected for a thread whose instance is no longer
\* in the list is a no-op: it is dropped without an error, creates no
\* RoomMember and issues no send.
Outcome(t, u, hasMember, content, reference) ==
    synchronizeMessage(Heap, calls[t].room, t, u, hasMember, content, reference,
                       [msg |-> numMsgs + 1, src |-> t, author |-> u, others |-> {}]).outcome

C16_Unsubscribed ==
    \A t \in Threads :
        ( /\ calls[t].room # NoRoom
          /\ t \in Range(instances[calls[t].room])
          /\ t \notin Range(instances'[calls[t].room]) )
        => inst'[t].collector = "stopped"

C16_StaleMessageIsNoOp ==
    \A t \in Threads, u \in Users :
        ( /\ numMsgs' # numMsgs
          /\ inst[t].collector = "live"
          /\ t \notin Range(instances[calls[t].room]) )
        => \A hasMember \in BOOLEAN, content \in Contents, attachments \in Attachments,
              reference \in References(t) \cup {NoReference} :
               Collect(t, u, hasMember, content, attachments, reference)
               => ( /\ Outcome(t, u, hasMember, content, reference) # "threw"
                    /\ UNCHANGED <<instances, members, memberCount, inst, joinLog, sent,
                                   fetching>> )

C16_RemovalUnsubscribesAndStaleIsNoOp ==
    [][C16_Unsubscribed /\ C16_StaleMessageIsNoOp]_vars

\* C17: the room-wide membership list and the instances' member lists are in
\* sync in every state: a RoomMember is in the room-wide list if and only if
\* it is in the member list of exactly one registered instance of the room.
C17_MemberListsInSync ==
    \A r \in RoomRefs :
        /\ \A m \in Range(RoomWideMembers(Heap, r)) :
              Cardinality({t \in Registered(r) : m \in Range(inst[t].members)}) = 1
        /\ \A t \in Registered(r) : \A m \in Range(inst[t].members) :
              m \in Range(RoomWideMembers(Heap, r))

\* C18: when a RoomMember is created in instance I, by createThread or by
\* auto-join, a join notice about it is sent to every registered instance
\* other than I and never to I, under the bot's name and avatar.
AsBot(i) == sent'[i].username = BotName /\ sent'[i].avatarURL = BotAvatar

C18_JoinNoticeToOthersAsBot ==
    [][\A r \in RoomRefs :
          Len(joinLog'[r]) > Len(joinLog[r])
          => LET m == joinLog'[r][Len(joinLog'[r])]
             IN  /\ \A o \in Registered(r) \ {m.instance} :
                       \E i \in NewSends :
                           /\ sent'[i].to = o
                           /\ sent'[i].msg = 0
                           /\ sent'[i].embed # <<>>
                           /\ sent'[i].embed[1].text[1] = m.displayName
                           /\ AsBot(i)
                 /\ \A i \in NewSends :
                       sent'[i].msg = 0 => (sent'[i].to # m.instance /\ AsBot(i)) ]_vars

\* A room with two instances whose third RoomMember joined by posting; its
\* join notice went to the other instance.
C18_Witness ==
    \E r \in RoomRefs : \E i \in 1..Len(sent) :
        /\ Len(instances[r]) >= 2
        /\ Len(joinLog[r]) >= 3
        /\ sent[i].room = r
        /\ sent[i].msg = 0
        /\ sent[i].author = joinLog[r][3].user
        /\ sent[i].src = joinLog[r][3].instance
        /\ sent[i].to # joinLog[r][3].instance
        /\ sent[i].username = BotName

\* C19: a message of an admitted participant is dropped exactly when it has
\* no member identity or when its content and its attachments are both
\* empty; so a message with empty text and an attachment is relayed to the
\* other instances.
Admitted(t, u) ==
    /\ inst[t].collector = "live"
    /\ t \in Registered(calls[t].room)
    /\ Registered(calls[t].room) # {t}
    /\ ~NonMember(t, u)

C19_DroppedOnlyWithoutIdentityOrPayload ==
    [][\A t \in Threads, u \in Users :
          (numMsgs' # numMsgs /\ Admitted(t, u))
          => \A hasMember \in BOOLEAN, content \in Contents, attachments \in Attachments,
                reference \in References(t) \cup {NoReference} :
                 Collect(t, u, hasMember, content, attachments, reference)
                 => ( (~hasMember \/ (content = "" /\ attachments = 0))
                      <=> ( /\ \A i \in NewSends : sent'[i].msg # numMsgs'
                            /\ fetching' = fetching ) ) ]_vars

\* C20: the content of every relayed message, reply prefix included, is at
\* most 2000 characters long.  Lengths: "max" stands for a text of 2000
\* characters; quote(x) is "> " and x; a mention is at least "<@", one digit
\* and ">", or "@" and one character.
ContentLength(content) ==
    CASE content = "" -> 0
      [] content = "hi" -> 2
      [] content = "max" -> 2000

PrefixLength(prefix) ==
    (IF prefix.quote = <<>> THEN 0 ELSE 2 + ContentLength(prefix.quote[1]))
    + 1
    + (IF prefix.mention.kind = "<@id>" THEN 4 ELSE 2)

PayloadLength(s) ==
    IF s.prefix = <<>> THEN ContentLength(s.content)
    ELSE PrefixLength(s.prefix[1]) + 1 + ContentLength(s.content)

C20_RelayedContentFits ==
    \A i \in 1..Len(sent) : sent[i].msg > 0 => PayloadLength(sent[i]) <= 2000

\* C21: the reply prefix sent to a target instance never mentions the real
\* user id of an anonymous participant who is not a member of that instance:
\* such an author is named by the anonymous display name, and a real mention
\* is sent only for an author who is no participant, is a non-anonymous
\* participant, or is a member of the target instance.
Participations(r, user) == {m \in Range(joinLog'[r]) : m.user = user}

C21_MentionFits(s) ==
    LET mention == s.prefix[1].mention
    IN  IF mention.kind = "<@id>"
        THEN \/ Participations(s.room, mention.id) = {}
             \/ \E m \in Participations(s.room, mention.id) :
                    ~m.anonymous \/ m.instance = s.to
        ELSE \E m \in Range(joinLog'[s.room]) :
                 m.anonymous /\ m.displayName = mention.name /\ m.instance # s.to

C21_ReplyKeepsAnonymity ==
    [][\A i \in NewSends :
          (sent'[i].msg > 0 /\ sent'[i].prefix # <<>>) => C21_MentionFits(sent'[i])]_vars

\* C25: a rejected send to instance X removes only X: deleteInstance for an X
\* that is already out of the list leaves the list unchanged, no other
\* instance is removed and no other instance's collector is stopped.
C25_FailureRemovesOnlyItsInstance ==
    [][\A i \in 1..Len(sent), reason \in {"ChannelGone", "TransientSendError"} :
          SendRejected(i, reason)
          => /\ \A t \in Threads \ {sent[i].to} :
                   /\ t \in Registered(sent[i].room) => t \in Range(instances'[sent[i].room])
                   /\ inst'[t].collector = inst[t].collector
             /\ sent[i].to \notin Registered(sent[i].room) => UNCHANGED instances ]_vars

\* C26: within one instance no two RoomMembers have the same user, and a
\* user's joining an instance is announced at most once to each instance,
\* however many messages the user posts there.
C26_OneMemberPerUserAndInstance ==
    /\ \A t \in Threads : \A i, j \in 1..Len(inst[t].members) :
          i # j => inst[t].members[i].user # inst[t].members[j].user
    /\ \A i, j \in 1..Len(sent) :
          ( /\ i # j
            /\ sent[i].msg = 0
            /\ sent[j].msg = 0
            /\ sent[i].author = sent[j].author
            /\ sent[i].src = sent[j].src )
          => sent[i].to # sent[j].to

\* A user who is not the initiator of an instance has had two messages
\* relayed from it.
C26_Witness ==
    \E i, j \in 1..Len(sent) :
        /\ sent[i].msg = 1
        /\ sent[j].msg = 2
        /\ sent[i].author = sent[j].author
        /\ sent[i].src = sent[j].src
        /\ Len(inst[sent[i].src].members) >= 2
        /\ inst[sent[i].src].members[2].user = sent[i].author

\* C27 as stated: a join whose id is not registered changes nothing and the
\* caller is told the id is invalid; an id typed in upper case resolves to
\* the registered lowercase room.
UpperCase(id) == [i \in DOMAIN id |-> id[i] + NumCharacters]

C27_Frame ==
    UNCHANGED <<rooms, room, numRooms, ctor, instances, members, memberCount, inst,
                webhooks, sent, failed, numMsgs, fetching, joinLog>>

C27_Joins(typed, inCachedGuild) ==
    \E u \in Users, a \in BOOLEAN, ch \in Channels : \E k \in Avatars(a) :
        JoinCommand(numCalls', typed, u, a, k, ch, inCachedGuild)

C27_UnknownIdToldInvalid ==
    [][numCalls' # numCalls =>
          \A id \in makeId(IdLength), inCachedGuild \in BOOLEAN :
          \A typed \in {id, UpperCase(id)} :
              C27_Joins(typed, inCachedGuild)
              => IF rooms[id] = NoRoom
                 THEN C27_Frame /\ calls'[numCalls'] = Returned("invalid", NoRoom)
                 ELSE inCachedGuild => calls'[numCalls'].room = rooms[id] ]_vars

\* C27, amended: a join whose id is not registered changes nothing; the
\* caller is told the id is invalid when the interaction is in a cached
\* guild, and otherwise the command throws before it answers; in a cached
\* guild an id typed in upper case joins the registered lowercase room.
C27_UnknownIdChangesNothing ==
    [][numCalls' # numCalls =>
          \A id \in makeId(IdLength), inCachedGuild \in BOOLEAN :
          \A typed \in {id, UpperCase(id)} :
              C27_Joins(typed, inCachedGuild)
              => IF rooms[id] = NoRoom
                 THEN /\ C27_Frame
                      /\ calls'[numCalls'] = Returned(IF inCachedGuild THEN "invalid" ELSE "notCached",
                                              NoRoom)
                 ELSE inCachedGuild => /\ calls'[numCalls'].room = rooms[id]
                                       /\ calls'[numCalls'].pc = "reply" ]_vars

\* One join was answered "invalid", one threw outside a cached guild, and a
\* room is registered.
C27_Witness ==
    /\ \E c \in Calls : calls[c].pc = "invalid"
    /\ \E c \in Calls : calls[c].pc = "notCached"
    /\ \E r \in RoomRefs : Constructed(r)

\* C24: when the transport fails while createThread obtains the webhook or
\* starts the thread, the step changes nothing of the room (instance list,
\* member lists, numbering, subscriptions, sends), and the failed request has
\* left no instance, no member and no live collector behind.
C24_NothingLeft(c) ==
    /\ \A r \in RoomRefs :
          /\ c \notin Range(instances[r])
          /\ \A i \in 1..Len(joinLog[r]) : joinLog[r][i].instance # c
    /\ inst[c].members = <<>>
    /\ inst[c].collector = "none"

C24_TransportFailureScopedToRequest ==
    [][\A c \in Calls :
          (calls[c].pc # "rejected" /\ calls'[c].pc = "rejected")
          => /\ UNCHANGED <<rooms, room, instances, members, memberCount, inst, sent,
                            failed, fetching, joinLog>>
             /\ C24_NothingLeft(c)]_vars

\* A join was rejected by the transport in a room that has a live instance.
C24_Witness ==
    \E c \in Calls :
        /\ calls[c].pc = "rejected"
        /\ instances[calls[c].room] # <<>>
        /\ \A t \in Range(instances[calls[c].room]) : inst[t].collector = "live"

\* C23: a webhook message or a system message created in a thread never
\* reaches synchronizeMessage: a step that sends, suspends a reply, counts a
\* collected message or changes the room is not the creation of a webhook or
\* system message; and a message is sent at most once to each instance and
\* never back to the instance it came from.
C23_Created(t, webhookId, system) ==
    \E u \in Users, hasMember \in BOOLEAN, content \in Contents :
        \E attachments \in Attachments, reference \in References(t) \cup {NoReference} :
            messageCreate(t, u, hasMember, content, attachments, reference, webhookId, system)

C23_OncePerTarget ==
    \A i \in 1..Len(sent) :
        sent[i].msg > 0
        => /\ sent[i].to # sent[i].src
           /\ \A j \in 1..Len(sent) :
                 (j # i /\ sent[j].msg = sent[i].msg) => sent[j].to # sent[i].to

C23_RelayedAndSystemMessagesNeverRelayed ==
    [][/\ ( /\ workload.filtered > 0
            /\ ~UNCHANGED <<instances, members, memberCount, inst, sent, failed, fetching,
                            joinLog, numMsgs>> )
          => \A t \in Threads, webhookId \in BOOLEAN, system \in BOOLEAN :
                (webhookId \/ system) => ~C23_Created(t, webhookId, system)
       /\ C23_OncePerTarget']_vars

\* A message was relayed into a thread, and the collector of that thread
\* has filtered a message out.
C23_Witness ==
    \E i \in 1..Len(sent) : sent[i].msg > 0 /\ sent[i].to \in filteredOut

\* C22: the construction of a Room always terminates: a constructor that
\* has entered createRoomId leaves it, with an id or with an error, also when
\* every id of the id space is registered.
C22_RoomCreationTerminates == (ctor # NoRoom) ~> (ctor = NoRoom)

====
